---- MODULE Spec2Model ----
(***************************************************************************)
(* Sales / returns / inventory transaction engine of the mobile-shop       *)
(* server (src/server.js): POST /api/sales and POST /api/returns running   *)
(* on the single shared sqlite3 connection `db`.                            *)
(*                                                                         *)
(* The database is modelled at the level of SQL statements.  A statement   *)
(* that has been issued sits in `queue` until the connection executes it;  *)
(* executing a statement and running its completion callback is one step.  *)
(* Statements issued inside db.serialize() are exclusive (they run only    *)
(* once everything issued before them has completed); statements issued    *)
(* from callbacks run in the connection's default parallel mode, i.e. in   *)
(* any order.                                                              *)
(*                                                                         *)
(* Money is kept in whole currency units; the request inputs are chosen so *)
(* that subtotal * pct / 100 and profit / quantity are exact.              *)
(***************************************************************************)
EXTENDS Integers, Sequences, FiniteSets, TLC

\* ---------------------------------------------------------------- bounds
MaxReq == 2
MaxItems == 2
MaxQty == 2
MaxRequests == 2
MaxSaleId == 2
MaxItemId == 2
MaxFaults == 1
InitStock == 1

Reqs == 1..MaxReq
Products == {1, 2}

\* The id the next INSERT INTO products gets (AUTOINCREMENT), and the ids a
\* products row can have.
NewProduct == Cardinality(Products) + 1
ProductIds == Products \cup {NewProduct}

\* Rows of the categories table.
Categories == {1, 2}

\* Values the caller puts in an item (req.body.items[k]): the catalogue
\* price and per-unit profit of the product the item names.
CatalogPrice(p) == IF p = 1 THEN 100 ELSE 50
CatalogProfit(p) == IF p = 1 THEN 10 ELSE 5

GoodItem(p) ==
  [product_id |-> p, quantity |-> MaxQty, named |-> TRUE,
   unit_price |-> CatalogPrice(p), line_total |-> CatalogPrice(p) * MaxQty,
   profit |-> CatalogProfit(p) * MaxQty]

\* An item without product_name: its INSERT violates NOT NULL (line 96).
BadItem == [GoodItem(1) EXCEPT !.named = FALSE]

ItemInputs == { GoodItem(p) : p \in Products } \cup { BadItem }

ItemLists == UNION { [1..n -> ItemInputs] : n \in 0..MaxItems }

Discounts == { [type |-> "flat", amount |-> 10],
               [type |-> "percentage", amount |-> 10] }

\* Inputs of the requests.  When requests overlap (seq = FALSE) the model
\* explores the interleavings of the statements and keeps the arithmetic of
\* the requests to one discount and to returns that name sale 1 / product 1;
\* processed one at a time (seq = TRUE) they range over all the inputs.
SaleDiscounts(seq) ==
  IF seq THEN Discounts ELSE { [type |-> "flat", amount |-> 10] }

ReturnTargets(seq) ==
  IF seq THEN (1..MaxSaleId) \X Products ELSE { <<1, 1>> }

NoItem == [sale_id |-> 0, product_id |-> 0, quantity |-> 0, returned_quantity |-> 0,
           unit_price |-> 0, line_total |-> 0, profit |-> 0, by |-> 0]

VARIABLES db, snap, inTxn, owner, queue, req, faults, served, clock

vars == <<db, snap, inTxn, owner, queue, req, faults, served, clock>>

\* ------------------------------------------------------------ the database
\* Tables of mobile_shop.db as the connection sees them.  Row ids are the
\* positions in the sequences (AUTOINCREMENT; no handler deletes these rows,
\* and sqlite_sequence is rolled back together with the rows).  The fields
\* products.quantity, products.category_id and products.selling_price are
\* kept per product id; category 0 stands for "no row with this id".  Both
\* initial products are in category 1; category 2 has no product.  The fields
\* `by`, `dec` and `upd` are history: which in-flight request wrote a row,
\* which of its stock decrements and which of its return updates are part of
\* this database state.
EmptyDb ==
  [products |-> [p \in ProductIds |-> IF p \in Products THEN InitStock ELSE 0],
   category |-> [p \in ProductIds |-> IF p \in Products THEN 1 ELSE 0],
   price |-> [p \in ProductIds |-> IF p \in Products THEN CatalogPrice(p) ELSE 0],
   categories |-> Categories,
   sales |-> << >>, items |-> << >>, returns |-> << >>,
   dec |-> [r \in Reqs |-> {}], upd |-> [r \in Reqs |-> {}]]

SaleRow(invoice, subtotal, damount, dtype, netTotal, totalProfit, by) ==
  [invoice_number |-> invoice, subtotal |-> subtotal, discount_amount |-> damount, discount_type |-> dtype,
   net_total |-> netTotal, total_profit |-> totalProfit, by |-> by]

ItemRow(saleId, item, by) ==
  [sale_id |-> saleId, product_id |-> item.product_id,
   quantity |-> item.quantity, returned_quantity |-> 0,
   unit_price |-> item.unit_price, line_total |-> item.line_total,
   profit |-> item.profit, by |-> by]

\* The products table of d has a row with id p.
Exists(d, p) == d.category[p] # 0

\* What a second connection (or the process after a restart) would read.
Committed == IF inTxn THEN snap ELSE db

\* ------------------------------------------------------------ requests
Idle ==
  [kind |-> "none", items |-> << >>, dtype |-> "flat", damount |-> 0,
   subtotal |-> 0, netTotal |-> 0, totalProfit |-> 0,
   sale_id |-> 0, sale_item_id |-> 0, product_id |-> 0, quantity |-> 0,
   category_id |-> 0, selling_price |-> 0,
   invoiceNumber |-> 0, saleId |-> 0, completed |-> 0, item |-> NoItem,
   returnAmount |-> 0, returnProfit |-> 0,
   status |-> 0, failedAt |-> "", pre |-> EmptyDb]

RECURSIVE SumField(_, _)
SumField(s, f) == IF s = << >> THEN 0 ELSE s[1][f] + SumField(Tail(s), f)

\* Variant: a percentage discount taken as a flat amount.
DiscountValue_Flat(subtotal, dtype, damount) == damount

\* lines 309-322: subtotal, totalProfit, discountValue, netTotal
DiscountValue(subtotal, dtype, damount) ==
  IF dtype = "percentage" THEN (subtotal * damount) \div 100 ELSE damount

SaleTotals(items, dtype, damount) ==
  LET subtotal == SumField(items, "line_total")
      gross == SumField(items, "profit")
      discountValue == DiscountValue(subtotal, dtype, damount)
  IN [subtotal |-> subtotal,
      netTotal |-> subtotal - discountValue,
      totalProfit |-> gross - discountValue]

\* Variant: the amount taken from the product's current selling price.
ReturnAmount_Current(item, quantity) == db.price[item.product_id] * quantity

\* lines 452-453
ReturnAmount(item, quantity) == item.unit_price * quantity
\* Variant: the profit of the whole line for every returned unit.
ReturnProfit_Line(item, quantity) == item.profit * quantity

ReturnProfit(item, quantity) == (item.profit \div item.quantity) * quantity

\* ------------------------------------------------------------ statements
Stmt(r, op, k, excl) == [r |-> r, op |-> op, k |-> k, excl |-> excl]

RemoveAt(s, i) == [j \in 1..(Len(s) - 1) |-> IF j < i THEN s[j] ELSE s[j + 1]]

InQueue(r) == \E i \in DOMAIN queue : queue[i].r = r

\* Every statement of the request has run and no callback is outstanding:
\* the request is over for the server (answered, or left without answer).
Finished(r) == req[r].kind # "none" /\ ~InQueue(r)

\* A request that is over leaves its slot before anything else happens.
Settled == \A r \in Reqs : ~Finished(r)

\* A new request takes the lowest free slot; processed one at a time (seq),
\* it is accepted only when no other request is in flight.
Accepts(r, seq) ==
  /\ Settled
  /\ req[r].kind = "none"
  /\ \A x \in 1..(r - 1) : req[x].kind # "none"
  /\ seq => \A x \in Reqs : req[x].kind = "none"
  /\ served < MaxRequests

\* The connection may execute queue[i] now.
Runnable(i) ==
  /\ Settled
  /\ i \in DOMAIN queue
  /\ queue[i].excl => i = 1
  /\ queue[i].op = "insItem" =>
       \A j \in 1..(i - 1) : ~(queue[j].r = queue[i].r /\ queue[j].op = "insItem")

\* res.status(..).json(..): a second response on the same request throws.
CanRespond(rq) == rq.status = 0

ClearTags(d, r) ==
  [d EXCEPT !.sales = [n \in DOMAIN @ |-> IF @[n].by = r THEN [@[n] EXCEPT !.by = 0] ELSE @[n]],
            !.items = [n \in DOMAIN @ |-> IF @[n].by = r THEN [@[n] EXCEPT !.by = 0] ELSE @[n]],
            !.returns = [n \in DOMAIN @ |-> IF @[n].by = r THEN [@[n] EXCEPT !.by = 0] ELSE @[n]],
            !.dec[r] = {}, !.upd[r] = {}]

RECURSIVE ClearAll(_, _)
ClearAll(d, rs) ==
  IF rs = {} THEN d
  ELSE LET r == CHOOSE x \in rs : TRUE IN ClearAll(ClearTags(d, r), rs \ {r})

\* An exception that nothing catches ends the node process (the source
\* installs no uncaughtException handler and no 'error' listener): a
\* statement issued without callback fails and its 'error' event is
\* unhandled, or a callback throws.  Every request in flight is dropped
\* unanswered and the open transaction, if any, is rolled back by SQLite when
\* the restarted server opens the database file again.
Crash ==
  /\ db' = ClearAll(Committed, Reqs)
  /\ snap' = ClearAll(Committed, Reqs)
  /\ inTxn' = FALSE
  /\ owner' = 0
  /\ queue' = << >>
  /\ req' = [r \in Reqs |-> Idle]

\* An environment failure (SQLITE_BUSY, SQLITE_FULL, ...) of a statement
\* whose callback receives the error.
Fault(ok) ==
  /\ ok \in BOOLEAN
  /\ ~ok => faults < MaxFaults
  /\ faults' = IF ok THEN faults ELSE faults + 1
  /\ UNCHANGED <<served, clock>>

\* A write of the connection: outside a transaction it is committed at once.
Wrote(d) ==
  /\ db' = d
  /\ snap' = IF inTxn THEN snap ELSE d

\* The shop has already sold MaxQty units of product 1 in sale 1 (flat
\* discount 10), which left InitStock units of it on the shelf.
InitDb ==
  LET item == GoodItem(1)
      t == SaleTotals(<< item >>, "flat", 10)
  IN [EmptyDb EXCEPT
        !.sales = << SaleRow(0, t.subtotal, 10, "flat", t.netTotal, t.totalProfit, 0) >>,
        !.items = << ItemRow(1, item, 0) >>]

Init ==
  /\ db = InitDb
  /\ snap = InitDb
  /\ inTxn = FALSE
  /\ owner = 0
  /\ queue = << >>
  /\ req = [r \in Reqs |-> Idle]
  /\ faults = 0
  /\ served = 0
  /\ clock = 0

\* Date.now() when a sale request arrives (line 307), in milliseconds since
\* the previous sale request arrived: the same millisecond or a later one.
\* Overlapping requests are given distinct milliseconds.
Now(seq) == IF seq THEN {clock, clock + 1} ELSE {clock + 1}

\* Variant: a sales table without the UNIQUE constraint on invoice_number.
InvoiceTaken_Never(d, invoice) == FALSE

\* invoice_number TEXT UNIQUE NOT NULL (line 76): the INSERT fails when a row
\* the connection sees already carries the number.
InvoiceTaken(d, invoice) ==
  \E m \in DOMAIN d.sales : d.sales[m].invoice_number = invoice

\* ------------------------------------------------ POST /api/sales, 304-325
\* The handler computes the totals and, inside db.serialize(), issues
\* BEGIN TRANSACTION and the INSERT INTO sales.
StartSale(r, seq) ==
  /\ Accepts(r, seq)
  /\ served' = served + 1
  /\ \E items \in ItemLists, d \in SaleDiscounts(seq), now \in Now(seq) :
       /\ clock' = now
       /\ LET t == SaleTotals(items, d.type, d.amount)
          IN req' = [req EXCEPT ![r] =
                       [Idle EXCEPT !.kind = "sale", !.items = items,
                                    !.invoiceNumber = now,
                                    !.pre = IF seq THEN Committed ELSE EmptyDb,
                                    !.dtype = d.type, !.damount = d.amount,
                                    !.subtotal = t.subtotal,
                                    !.netTotal = t.netTotal,
                                    !.totalProfit = t.totalProfit]]
  /\ queue' = queue \o << Stmt(r, "begin", 0, TRUE), Stmt(r, "insSale", 0, TRUE) >>
  /\ UNCHANGED <<db, snap, inTxn, owner, faults>>

\* Variant: a connection on which a BEGIN inside an open transaction is
\* accepted and joins it.
ExecBegin_Nested(i) ==
  /\ Runnable(i) /\ queue[i].op = "begin"
  /\ snap' = (IF inTxn THEN snap ELSE db) /\ db' = db /\ inTxn' = TRUE
  /\ owner' = (IF inTxn THEN owner ELSE queue[i].r)
  /\ queue' = RemoveAt(queue, i) /\ req' = req
  /\ UNCHANGED <<faults, served, clock>>

\* db.run('BEGIN TRANSACTION'), lines 325 and 438: no callback.
ExecBegin(i) ==
  /\ Runnable(i) /\ queue[i].op = "begin"
  /\ LET q == RemoveAt(queue, i)
     IN IF inTxn
        THEN \* "cannot start a transaction within a transaction"
             Crash
        ELSE /\ snap' = db /\ db' = db /\ inTxn' = TRUE
             /\ owner' = queue[i].r
             /\ queue' = q /\ req' = req
  /\ UNCHANGED <<faults, served, clock>>

\* db.run('ROLLBACK'): no callback.
ExecRollback(i) ==
  /\ Runnable(i) /\ queue[i].op = "rollback"
  /\ LET q == RemoveAt(queue, i)
     IN IF ~inTxn
        THEN \* "cannot rollback - no transaction is active"
             Crash
        ELSE /\ db' = snap /\ snap' = snap /\ inTxn' = FALSE
             /\ owner' = 0
             /\ queue' = q /\ req' = req
  /\ UNCHANGED <<faults, served, clock>>

\* db.run('COMMIT'), lines 360 and 486: no callback, so a COMMIT that fails
\* raises an 'error' event that nothing handles.
ExecCommit(i) ==
  /\ Runnable(i) /\ queue[i].op = "commit"
  /\ \E ok \in BOOLEAN :
       /\ Fault(ok)
       /\ LET q == RemoveAt(queue, i)
              r == queue[i].r
          IN IF ~ok \/ ~inTxn
             THEN \* "cannot commit - no transaction is active", or I/O error
                  Crash
             ELSE /\ db' = db /\ snap' = db /\ inTxn' = FALSE
                  /\ owner' = 0
                  /\ queue' = q /\ req' = req

\* INSERT INTO sales and its callback, lines 327-365.
ExecInsertSale(i) ==
  /\ Runnable(i) /\ queue[i].op = "insSale"
  /\ \E ok \in BOOLEAN :
       /\ Fault(ok)
       /\ LET r == queue[i].r
              q == RemoveAt(queue, i)
              rq == req[r]
              row == SaleRow(rq.invoiceNumber, rq.subtotal, rq.damount, rq.dtype,
                             rq.netTotal, rq.totalProfit, r)
              n == Len(rq.items)
              taken == InvoiceTaken(db, rq.invoiceNumber)
          IN IF ~ok \/ taken
             THEN /\ queue' = Append(q, Stmt(r, "rollback", 0, FALSE))
                  /\ req' = [req EXCEPT ![r].status = 400,
                                        ![r].failedAt = IF ok THEN "unique" ELSE "insSale"]
                  /\ UNCHANGED <<db, snap, inTxn, owner>>
             ELSE /\ Wrote([db EXCEPT !.sales = Append(@, row)])
                  /\ queue' = q \o [k \in 1..n |-> Stmt(r, "insItem", k, FALSE)]
                  /\ req' = [req EXCEPT ![r].saleId = Len(db.sales) + 1]
                  /\ UNCHANGED <<inTxn, owner>>

\* stmt.run([...item...]) and its callback, lines 346-363.  The insert fails
\* on its own when the item has no product_name (NOT NULL constraint).
ExecInsertItem(i) ==
  /\ Runnable(i) /\ queue[i].op = "insItem"
  /\ LET r == queue[i].r
         k == queue[i].k
         q == RemoveAt(queue, i)
         rq == req[r]
         item == rq.items[k]
         row == ItemRow(rq.saleId, item, r)
     IN IF ~item.named
        THEN LET q2 == Append(q, Stmt(r, "rollback", 0, FALSE))
             IN IF CanRespond(rq)
                THEN /\ queue' = q2
                     /\ req' = [req EXCEPT ![r].status = 400, ![r].failedAt = "insItem"]
                     /\ UNCHANGED <<db, snap, inTxn, owner>>
                ELSE \* second response: ERR_HTTP_HEADERS_SENT is thrown
                     Crash
        ELSE /\ Wrote([db EXCEPT !.items = Append(@, row)])
             /\ UNCHANGED <<inTxn, owner>>
             /\ IF rq.completed + 1 = Len(rq.items)
                THEN /\ queue' = q \o << Stmt(r, "updStock", k, FALSE),
                                         Stmt(r, "commit", 0, FALSE) >>
                     /\ req' = [req EXCEPT ![r].completed = @ + 1,
                                           ![r].status = 200]
                ELSE /\ queue' = Append(q, Stmt(r, "updStock", k, FALSE))
                     /\ req' = [req EXCEPT ![r].completed = @ + 1]
  /\ UNCHANGED <<faults, served, clock>>

\* Variant: one unit taken from stock whatever the item's quantity.
ExecUpdateStock_One(i) ==
  /\ Runnable(i) /\ queue[i].op = "updStock"
  /\ LET r == queue[i].r
         k == queue[i].k
         item == req[r].items[k]
     IN /\ Wrote([db EXCEPT !.products[item.product_id] =
                              IF Exists(db, item.product_id) THEN @ - 1 ELSE @,
                            !.dec[r] = @ \cup {k}])
        /\ queue' = RemoveAt(queue, i) /\ req' = req
        /\ UNCHANGED <<inTxn, owner>>
  /\ UNCHANGED <<faults, served, clock>>

\* UPDATE products SET quantity = quantity - ?, lines 354-355: no callback,
\* so a failure raises an 'error' event that nothing handles.
ExecUpdateStock(i) ==
  /\ Runnable(i) /\ queue[i].op = "updStock"
  /\ \E ok \in BOOLEAN :
       /\ Fault(ok)
       /\ LET r == queue[i].r
              k == queue[i].k
              q == RemoveAt(queue, i)
              item == req[r].items[k]
          IN IF ~ok
             THEN Crash
             ELSE /\ Wrote([db EXCEPT !.products[item.product_id] =
                                        IF Exists(db, item.product_id)
                                        THEN @ - item.quantity ELSE @,
                                      !.dec[r] = @ \cup {k}])
                  /\ queue' = q /\ req' = req
                  /\ UNCHANGED <<inTxn, owner>>

\* ---------------------------------------------- POST /api/returns, 434-440
ReturnQuantities == {-1, 1, MaxQty}

StartReturn(r, seq) ==
  /\ Accepts(r, seq)
  /\ served' = served + 1
  /\ \E t \in ReturnTargets(seq), iid \in 1..MaxItemId, qty \in ReturnQuantities :
       req' = [req EXCEPT ![r] =
                 [Idle EXCEPT !.kind = "return", !.sale_id = t[1],
                              !.pre = IF seq THEN Committed ELSE EmptyDb,
                              !.sale_item_id = iid, !.product_id = t[2],
                              !.quantity = qty]]
  /\ queue' = queue \o << Stmt(r, "begin", 0, TRUE), Stmt(r, "get", 0, TRUE) >>
  /\ UNCHANGED <<db, snap, inTxn, owner, faults, clock>>

\* Variant: the error branch issues COMMIT where the code issues ROLLBACK.
FailReturn_Commit(r, q, at) ==
  /\ queue' = Append(q, Stmt(r, "commit", 0, FALSE))
  /\ req' = [req EXCEPT ![r].status = 400, ![r].failedAt = at]
  /\ UNCHANGED <<db, snap, inTxn, owner>>

\* A callback that fails the request: db.run('ROLLBACK'); res.status(400).
FailReturn(r, q, at) ==
  /\ queue' = Append(q, Stmt(r, "rollback", 0, FALSE))
  /\ req' = [req EXCEPT ![r].status = 400, ![r].failedAt = at]
  /\ UNCHANGED <<db, snap, inTxn, owner>>

\* SELECT * FROM sale_items WHERE id = ? and its callback, lines 440-453.
ExecGet(i) ==
  /\ Runnable(i) /\ queue[i].op = "get"
  /\ \E ok \in BOOLEAN :
       /\ Fault(ok)
       /\ LET r == queue[i].r
              q == RemoveAt(queue, i)
              rq == req[r]
          IN IF ~ok
             THEN FailReturn(r, q, "get")
             ELSE IF rq.sale_item_id \notin DOMAIN db.items
             THEN \* item is undefined: item.quantity throws a TypeError
                  Crash
             ELSE LET item == db.items[rq.sale_item_id]
                      availableQty == item.quantity - item.returned_quantity
                  IN IF rq.quantity > availableQty
                     THEN FailReturn(r, q, "check")
                     ELSE /\ queue' = Append(q, Stmt(r, "insRet", 0, FALSE))
                          /\ req' = [req EXCEPT
                                       ![r].item = item,
                                       ![r].returnAmount = ReturnAmount(item, rq.quantity),
                                       ![r].returnProfit = ReturnProfit(item, rq.quantity)]
                          /\ UNCHANGED <<db, snap, inTxn, owner>>

\* INSERT INTO returns and its callback, lines 455-464.
ExecInsertReturn(i) ==
  /\ Runnable(i) /\ queue[i].op = "insRet"
  /\ \E ok \in BOOLEAN :
       /\ Fault(ok)
       /\ LET r == queue[i].r
              q == RemoveAt(queue, i)
              rq == req[r]
              row == [sale_id |-> rq.sale_id, sale_item_id |-> rq.sale_item_id,
                      product_id |-> rq.product_id, quantity |-> rq.quantity,
                      return_amount |-> rq.returnAmount,
                      return_profit |-> rq.returnProfit, by |-> r]
          IN IF ~ok
             THEN FailReturn(r, q, "insRet")
             ELSE /\ Wrote([db EXCEPT !.returns = Append(@, row)])
                  /\ queue' = Append(q, Stmt(r, "updItem", 0, FALSE))
                  /\ req' = req
                  /\ UNCHANGED <<inTxn, owner>>

\* Variant: the counter is set to the request's quantity instead of being
\* increased by it.
ExecUpdateItem_Set(i) ==
  /\ Runnable(i) /\ queue[i].op = "updItem"
  /\ \E ok \in BOOLEAN :
       /\ Fault(ok)
       /\ LET r == queue[i].r
              q == RemoveAt(queue, i)
              rq == req[r]
              id == rq.sale_item_id
          IN IF ~ok
             THEN FailReturn(r, q, "updItem")
             ELSE /\ Wrote([db EXCEPT
                              !.items = [n \in DOMAIN @ |->
                                 IF n = id
                                 THEN [@[n] EXCEPT !.returned_quantity = rq.quantity]
                                 ELSE @[n]],
                              !.upd[r] = @ \cup {"item"}])
                  /\ queue' = Append(q, Stmt(r, "updProd", 0, FALSE))
                  /\ req' = req
                  /\ UNCHANGED <<inTxn, owner>>

\* UPDATE sale_items SET returned_quantity = returned_quantity + ?, 464-471.
ExecUpdateItem(i) ==
  /\ Runnable(i) /\ queue[i].op = "updItem"
  /\ \E ok \in BOOLEAN :
       /\ Fault(ok)
       /\ LET r == queue[i].r
              q == RemoveAt(queue, i)
              rq == req[r]
              id == rq.sale_item_id
          IN IF ~ok
             THEN FailReturn(r, q, "updItem")
             ELSE /\ Wrote([db EXCEPT
                              !.items = [n \in DOMAIN @ |->
                                 IF n = id
                                 THEN [@[n] EXCEPT !.returned_quantity = @ + rq.quantity]
                                 ELSE @[n]],
                              !.upd[r] = @ \cup {"item"}])
                  /\ queue' = Append(q, Stmt(r, "updProd", 0, FALSE))
                  /\ req' = req
                  /\ UNCHANGED <<inTxn, owner>>

\* UPDATE products SET quantity = quantity + ?, lines 471-478.
ExecUpdateProduct(i) ==
  /\ Runnable(i) /\ queue[i].op = "updProd"
  /\ \E ok \in BOOLEAN :
       /\ Fault(ok)
       /\ LET r == queue[i].r
              q == RemoveAt(queue, i)
              rq == req[r]
          IN IF ~ok
             THEN FailReturn(r, q, "updProd")
             ELSE /\ Wrote([db EXCEPT !.products[rq.product_id] =
                                        IF Exists(db, rq.product_id)
                                        THEN @ + rq.quantity ELSE @,
                                      !.upd[r] = @ \cup {"prod"}])
                  /\ queue' = Append(q, Stmt(r, "updSale", 0, FALSE))
                  /\ req' = req
                  /\ UNCHANGED <<inTxn, owner>>

\* Variant: the Sale is charged the whole line_total of the SaleItem instead
\* of the returned amount.
ExecUpdateSale_Line(i) ==
  /\ Runnable(i) /\ queue[i].op = "updSale"
  /\ \E ok \in BOOLEAN :
       /\ Fault(ok)
       /\ LET r == queue[i].r
              q == RemoveAt(queue, i)
              rq == req[r]
          IN IF ~ok
             THEN FailReturn(r, q, "updSale")
             ELSE /\ Wrote([db EXCEPT
                              !.sales = [n \in DOMAIN @ |->
                                 IF n = rq.sale_id
                                 THEN [@[n] EXCEPT
                                         !.net_total = @ - rq.item.line_total,
                                         !.total_profit = @ - rq.returnProfit]
                                 ELSE @[n]],
                              !.upd[r] = @ \cup {"sale"}])
                  /\ queue' = Append(q, Stmt(r, "commit", 0, FALSE))
                  /\ req' = [req EXCEPT ![r].status = 200]
                  /\ UNCHANGED <<inTxn, owner>>

\* UPDATE sales SET net_total = net_total - ?, total_profit = ..., 478-488.
ExecUpdateSale(i) ==
  /\ Runnable(i) /\ queue[i].op = "updSale"
  /\ \E ok \in BOOLEAN :
       /\ Fault(ok)
       /\ LET r == queue[i].r
              q == RemoveAt(queue, i)
              rq == req[r]
          IN IF ~ok
             THEN FailReturn(r, q, "updSale")
             ELSE /\ Wrote([db EXCEPT
                              !.sales = [n \in DOMAIN @ |->
                                 IF n = rq.sale_id
                                 THEN [@[n] EXCEPT
                                         !.net_total = @ - rq.returnAmount,
                                         !.total_profit = @ - rq.returnProfit]
                                 ELSE @[n]],
                              !.upd[r] = @ \cup {"sale"}])
                  /\ queue' = Append(q, Stmt(r, "commit", 0, FALSE))
                  /\ req' = [req EXCEPT ![r].status = 200]
                  /\ UNCHANGED <<inTxn, owner>>

\* ------------------------------------------------------ catalogue requests
\* Body of POST /api/products and PUT /api/products/:id (lines 265-266 and
\* 281-282): a category, a selling price other than the catalogue prices and
\* a quantity other than the initial stock.
ProductBodies ==
  { [category_id |-> c, selling_price |-> 70, quantity |-> 0] : c \in Categories }

\* A catalogue handler issues one statement, outside db.serialize().
StartCatalog(r, kind, op, p, b) ==
  /\ Accepts(r, FALSE)
  /\ served' = served + 1
  /\ req' = [req EXCEPT ![r] =
               [Idle EXCEPT !.kind = kind, !.product_id = p,
                            !.category_id = b.category_id,
                            !.selling_price = b.selling_price,
                            !.quantity = b.quantity]]
  /\ queue' = Append(queue, Stmt(r, op, 0, FALSE))
  /\ UNCHANGED <<db, snap, inTxn, owner, faults, clock>>

\* The callback of a catalogue statement: one response, no further statement.
Answer(r, q, code, at) ==
  /\ queue' = q
  /\ req' = [req EXCEPT ![r].status = code, ![r].failedAt = at]

\* POST /api/products, lines 264-278.
StartCreateProduct(r) ==
  /\ ~Exists(db, NewProduct)
  /\ \A x \in Reqs : req[x].kind # "createProduct"
  /\ \E b \in ProductBodies : StartCatalog(r, "createProduct", "insProd", NewProduct, b)

ExecCreateProduct(i) ==
  /\ Runnable(i) /\ queue[i].op = "insProd"
  /\ \E ok \in BOOLEAN :
       /\ Fault(ok)
       /\ LET r == queue[i].r
              q == RemoveAt(queue, i)
              rq == req[r]
              id == rq.product_id
          IN IF ~ok
             THEN Answer(r, q, 400, "insProd") /\ UNCHANGED <<db, snap, inTxn, owner>>
             ELSE /\ Wrote([db EXCEPT !.category[id] = rq.category_id,
                                      !.price[id] = rq.selling_price,
                                      !.products[id] = rq.quantity])
                  /\ Answer(r, q, 200, "")
                  /\ UNCHANGED <<inTxn, owner>>

\* PUT /api/products/:id, lines 280-294: UPDATE products SET ... WHERE id=?.
StartPutProduct(r) ==
  \E p \in Products, b \in ProductBodies : StartCatalog(r, "putProduct", "updCatalog", p, b)

ExecPutProduct(i) ==
  /\ Runnable(i) /\ queue[i].op = "updCatalog"
  /\ \E ok \in BOOLEAN :
       /\ Fault(ok)
       /\ LET r == queue[i].r
              q == RemoveAt(queue, i)
              rq == req[r]
              id == rq.product_id
          IN IF ~ok
             THEN Answer(r, q, 400, "updCatalog") /\ UNCHANGED <<db, snap, inTxn, owner>>
             ELSE /\ Wrote(IF Exists(db, id)
                           THEN [db EXCEPT !.category[id] = rq.category_id,
                                           !.price[id] = rq.selling_price,
                                           !.products[id] = rq.quantity]
                           ELSE db)
                  /\ Answer(r, q, 200, "")
                  /\ UNCHANGED <<inTxn, owner>>

\* DELETE /api/products/:id, lines 296-301.
StartDeleteProduct(r) ==
  \E p \in Products :
    StartCatalog(r, "deleteProduct", "delProd", p,
                 [category_id |-> 0, selling_price |-> 0, quantity |-> 0])

ExecDeleteProduct(i) ==
  /\ Runnable(i) /\ queue[i].op = "delProd"
  /\ \E ok \in BOOLEAN :
       /\ Fault(ok)
       /\ LET r == queue[i].r
              q == RemoveAt(queue, i)
              id == req[r].product_id
          IN IF ~ok
             THEN Answer(r, q, 400, "delProd") /\ UNCHANGED <<db, snap, inTxn, owner>>
             ELSE /\ Wrote([db EXCEPT !.category[id] = 0, !.price[id] = 0,
                                      !.products[id] = 0])
                  /\ Answer(r, q, 200, "")
                  /\ UNCHANGED <<inTxn, owner>>

\* DELETE /api/categories/:id, lines 228-240: SELECT COUNT(*) ..., then in
\* its callback DELETE FROM categories.
StartDeleteCategory(r) ==
  \E c \in Categories :
    StartCatalog(r, "deleteCategory", "count", 0,
                 [category_id |-> c, selling_price |-> 0, quantity |-> 0])

\* SELECT COUNT(*) as count FROM products WHERE category_id = ?, line 229.
References(d, c) == Cardinality({ p \in ProductIds : d.category[p] = c })

ExecCount(i) ==
  /\ Runnable(i) /\ queue[i].op = "count"
  /\ \E ok \in BOOLEAN :
       /\ Fault(ok)
       /\ LET r == queue[i].r
              q == RemoveAt(queue, i)
              c == req[r].category_id
          IN /\ IF ~ok
                THEN Answer(r, q, 500, "count")
                ELSE IF References(db, c) > 0
                THEN Answer(r, q, 400, "referenced")
                ELSE /\ queue' = Append(q, Stmt(r, "delCat", 0, FALSE))
                     /\ req' = req
             /\ UNCHANGED <<db, snap, inTxn, owner>>

ExecDeleteCategory(i) ==
  /\ Runnable(i) /\ queue[i].op = "delCat"
  /\ \E ok \in BOOLEAN :
       /\ Fault(ok)
       /\ LET r == queue[i].r
              q == RemoveAt(queue, i)
              c == req[r].category_id
          IN IF ~ok
             THEN Answer(r, q, 400, "delCat") /\ UNCHANGED <<db, snap, inTxn, owner>>
             ELSE /\ Wrote([db EXCEPT !.categories = @ \ {c}])
                  /\ Answer(r, q, 200, "")
                  /\ UNCHANGED <<inTxn, owner>>

\* ------------------------------------------------------------ bookkeeping
Retire(r) ==
  /\ Finished(r)
  /\ req' = [req EXCEPT ![r] = Idle]
  /\ db' = ClearTags(db, r)
  /\ snap' = ClearTags(snap, r)
  /\ owner' = IF owner = r THEN 0 ELSE owner
  /\ UNCHANGED <<inTxn, queue, faults, served, clock>>

Next ==
  \/ \E r \in Reqs : StartSale(r, FALSE)
  \/ \E r \in Reqs : StartReturn(r, FALSE)
  \/ \E i \in DOMAIN queue : ExecBegin(i)
  \/ \E i \in DOMAIN queue : ExecRollback(i)
  \/ \E i \in DOMAIN queue : ExecCommit(i)
  \/ \E i \in DOMAIN queue : ExecInsertSale(i)
  \/ \E i \in DOMAIN queue : ExecInsertItem(i)
  \/ \E i \in DOMAIN queue : ExecUpdateStock(i)
  \/ \E i \in DOMAIN queue : ExecGet(i)
  \/ \E i \in DOMAIN queue : ExecInsertReturn(i)
  \/ \E i \in DOMAIN queue : ExecUpdateItem(i)
  \/ \E i \in DOMAIN queue : ExecUpdateProduct(i)
  \/ \E i \in DOMAIN queue : ExecUpdateSale(i)
  \/ \E r \in Reqs : Retire(r)

Spec == Init /\ [][Next]_vars

\* Requests processed one at a time: a request is accepted only when no other
\* request is in flight.
NextSeq ==
  \/ \E r \in Reqs : StartSale(r, TRUE)
  \/ \E r \in Reqs : StartReturn(r, TRUE)
  \/ \E i \in DOMAIN queue : ExecBegin(i)
  \/ \E i \in DOMAIN queue : ExecRollback(i)
  \/ \E i \in DOMAIN queue : ExecCommit(i)
  \/ \E i \in DOMAIN queue : ExecInsertSale(i)
  \/ \E i \in DOMAIN queue : ExecInsertItem(i)
  \/ \E i \in DOMAIN queue : ExecUpdateStock(i)
  \/ \E i \in DOMAIN queue : ExecGet(i)
  \/ \E i \in DOMAIN queue : ExecInsertReturn(i)
  \/ \E i \in DOMAIN queue : ExecUpdateItem(i)
  \/ \E i \in DOMAIN queue : ExecUpdateProduct(i)
  \/ \E i \in DOMAIN queue : ExecUpdateSale(i)
  \/ \E r \in Reqs : Retire(r)

SpecSeq == Init /\ [][NextSeq]_vars

\* Catalogue maintenance overlapping with returns.
NextCatalog ==
  \/ \E r \in Reqs : StartReturn(r, FALSE)
  \/ \E r \in Reqs : StartCreateProduct(r)
  \/ \E r \in Reqs : StartPutProduct(r)
  \/ \E r \in Reqs : StartDeleteProduct(r)
  \/ \E r \in Reqs : StartDeleteCategory(r)
  \/ \E i \in DOMAIN queue : ExecBegin(i)
  \/ \E i \in DOMAIN queue : ExecRollback(i)
  \/ \E i \in DOMAIN queue : ExecCommit(i)
  \/ \E i \in DOMAIN queue : ExecGet(i)
  \/ \E i \in DOMAIN queue : ExecInsertReturn(i)
  \/ \E i \in DOMAIN queue : ExecUpdateItem(i)
  \/ \E i \in DOMAIN queue : ExecUpdateProduct(i)
  \/ \E i \in DOMAIN queue : ExecUpdateSale(i)
  \/ \E i \in DOMAIN queue : ExecCreateProduct(i)
  \/ \E i \in DOMAIN queue : ExecPutProduct(i)
  \/ \E i \in DOMAIN queue : ExecDeleteProduct(i)
  \/ \E i \in DOMAIN queue : ExecCount(i)
  \/ \E i \in DOMAIN queue : ExecDeleteCategory(i)
  \/ \E r \in Reqs : Retire(r)

SpecCatalog == Init /\ [][NextCatalog]_vars

\* ------------------------------------------------------------ vocabulary
\* Number of rows of a table written by request r.
RowsBy(t, r) == Cardinality({n \in DOMAIN t : t[n].by = r})

\* The database without the history fields.
Tables(d) ==
  [products |-> d.products,
   sales |-> [n \in DOMAIN d.sales |-> [d.sales[n] EXCEPT !.by = 0]],
   items |-> [n \in DOMAIN d.items |-> [d.items[n] EXCEPT !.by = 0]],
   returns |-> [n \in DOMAIN d.returns |-> [d.returns[n] EXCEPT !.by = 0]]]

SaleOver(r) == Finished(r) /\ req[r].kind = "sale"
ReturnOver(r) == Finished(r) /\ req[r].kind = "return"

\* The request was answered with success and none of its statements failed.
Succeeded(r) == Finished(r) /\ req[r].status = 200 /\ req[r].failedAt = ""

\* History of request r contained in database state d.
Eff(d, r) ==
  [sales |-> RowsBy(d.sales, r), items |-> RowsBy(d.items, r),
   returns |-> RowsBy(d.returns, r), dec |-> d.dec[r], upd |-> d.upd[r]]

\* The Return row written by request r.
ReturnRowOf(d, r) == d.returns[CHOOSE n \in DOMAIN d.returns : d.returns[n].by = r]

\* ------------------------------------------------------------------- C1
\* C1: once a createSale request with N >= 1 items has finished, the
\* committed state holds either its Sale row, its N SaleItem rows and its N
\* product decrements, or none of them.
C1_SaleAtomic ==
  \A r \in Reqs :
    (SaleOver(r) /\ Len(req[r].items) >= 1) =>
      LET c == Committed
          n == Len(req[r].items)
          ns == RowsBy(c.sales, r)
          ni == RowsBy(c.items, r)
          nd == Cardinality(c.dec[r])
      IN \/ ns = 1 /\ ni = n /\ nd = n
         \/ ns = 0 /\ ni = 0 /\ nd = 0

\* ------------------------------------------------------------------- C2
\* C2: the committed state never holds part of a createReturn request: it
\* holds its Return row and its three updates, or none of the four; after a
\* failed statement it holds none.
C2_ReturnAtomic ==
  \A r \in Reqs :
    req[r].kind = "return" =>
      LET c == Committed
      IN /\ \/ RowsBy(c.returns, r) = 1 /\ c.upd[r] = {"item", "prod", "sale"}
            \/ RowsBy(c.returns, r) = 0 /\ c.upd[r] = {}
         /\ (Finished(r) /\ req[r].failedAt # "") =>
              /\ RowsBy(c.returns, r) = 0 /\ c.upd[r] = {}
              /\ Tables(c) = Tables(req[r].pre)

\* A return whose last statement (UPDATE sales) failed has been rolled back.
C2_Witness ==
  \E r \in Reqs :
    /\ ReturnOver(r) /\ req[r].failedAt = "updSale"
    /\ ~inTxn
    /\ RowsBy(db.returns, r) = 0 /\ db.upd[r] = {}

\* ------------------------------------------------------------------- C3
\* C3: with requests processed one at a time, every SaleItem keeps
\* 0 <= returned_quantity <= quantity, and a return asking for more than
\* quantity - returned_quantity is rejected and changes no table.
C3_Ceiling ==
  /\ \A n \in DOMAIN Committed.items :
       /\ 0 <= Committed.items[n].returned_quantity
       /\ Committed.items[n].returned_quantity <= Committed.items[n].quantity
  /\ \A r \in Reqs :
       (ReturnOver(r) /\ req[r].failedAt = "check") =>
         (req[r].status = 400 /\ Tables(Committed) = Tables(req[r].pre))

\* ------------------------------------------------------------------- C4
\* C4: the BEGIN of every request opens a transaction of its own, a write
\* of a request never lands in a transaction that another request began, and
\* when a transaction is committed or rolled back it holds no write of a
\* request other than the one that began it.
HasBegin(q, r) == \E i \in DOMAIN q : q[i].op = "begin" /\ q[i].r = r

C4_Step ==
  /\ \A r \in Reqs :
       (HasBegin(queue, r) /\ ~HasBegin(queue', r)) => (inTxn' /\ owner' = r)
  /\ \A r \in Reqs :
       (/\ req'[r].kind # "none"
        /\ Eff(db', r) # Eff(db, r)
        /\ inTxn /\ inTxn')
         => owner = r
  /\ (inTxn /\ ~inTxn' /\ \E r \in Reqs : req'[r].kind # "none") =>
       \A r \in Reqs : r # owner => Eff(db, r) = Eff(snap, r)

C4_Isolated == [][C4_Step]_vars

\* ------------------------------------------------------------------- C5
\* C5: under any interleaving of createReturn requests no SaleItem gets
\* returned_quantity > quantity, and two requests against the same SaleItem
\* are never both between their read and their increment.  (The connection
\* has one transaction: the BEGIN of the second request runs either after the
\* first request has committed or rolled back, or inside the first request's
\* transaction, where it fails and ends the process before a second
\* increment.)
InCritical(r) ==
  /\ req[r].kind = "return"
  /\ \E i \in DOMAIN queue :
       queue[i].r = r /\ queue[i].op \in {"insRet", "updItem"}

C5_NoOverReturn ==
  /\ \A n \in DOMAIN db.items : db.items[n].returned_quantity <= db.items[n].quantity
  /\ \A r1, r2 \in Reqs :
       (r1 # r2 /\ InCritical(r1) /\ InCritical(r2)) =>
         req[r1].sale_item_id # req[r2].sale_item_id

\* Two returns against item 1 overlap: each fits the balance alone, together
\* they do not, and the first has passed its availability check.
C5_Witness ==
  \E r1, r2 \in Reqs :
    /\ r1 # r2
    /\ InCritical(r1)
    /\ req[r2].kind = "return"
    /\ req[r1].sale_item_id = 1 /\ req[r2].sale_item_id = 1
    /\ req[r1].quantity > 0 /\ req[r2].quantity > 0
    /\ req[r2].quantity <= db.items[1].quantity - db.items[1].returned_quantity
    /\ req[r1].quantity + req[r2].quantity
         > db.items[1].quantity - db.items[1].returned_quantity

\* ------------------------------------------------------------------- C6
\* C6: the Sale row committed by a createSale request has subtotal = sum of
\* line_total, net_total = subtotal - discount_value and total_profit =
\* sum of profit - discount_value, discount_value being the flat amount or
\* subtotal * amount / 100.
C6_Totals ==
  \A r \in Reqs :
    req[r].kind = "sale" =>
      \A n \in DOMAIN Committed.sales :
        Committed.sales[n].by = r =>
          LET row == Committed.sales[n]
              sub == SumField(req[r].items, "line_total")
              dv == IF req[r].dtype = "flat" THEN req[r].damount
                    ELSE (sub * req[r].damount) \div 100
          IN /\ row.subtotal = sub
             /\ row.net_total = sub - dv
             /\ row.total_profit = SumField(req[r].items, "profit") - dv

\* A committed two-item sale with a percentage discount.
C6_Witness ==
  \E r \in Reqs :
    /\ SaleOver(r) /\ req[r].status = 200
    /\ req[r].dtype = "percentage" /\ Len(req[r].items) = 2
    /\ ~inTxn /\ RowsBy(db.sales, r) = 1

\* ------------------------------------------------------------------- C7
\* C7: a successful createReturn of q units against SaleItem i records
\* return_amount = i.unit_price * q and return_profit = (i.profit /
\* i.quantity) * q, adds exactly q to i.returned_quantity and takes the two
\* amounts off net_total and total_profit of the Sale the request names.
C7_Amounts ==
  \A r \in Reqs :
    (Succeeded(r) /\ req[r].kind = "return") =>
      LET pre == req[r].pre
          c == Committed
          id == req[r].sale_item_id
          sid == req[r].sale_id
          q == req[r].quantity
          i == pre.items[id]
          amount == i.unit_price * q
          profit == (i.profit \div i.quantity) * q
          row == ReturnRowOf(c, r)
      IN /\ RowsBy(c.returns, r) = 1
         /\ row.quantity = q
         /\ row.return_amount = amount
         /\ row.return_profit = profit
         /\ c.items[id].returned_quantity = i.returned_quantity + q
         /\ sid \in DOMAIN pre.sales =>
              /\ c.sales[sid].net_total = pre.sales[sid].net_total - amount
              /\ c.sales[sid].total_profit = pre.sales[sid].total_profit - profit

\* One of the two units of item 1 has been returned against sale 1.
C7_Witness ==
  \E r \in Reqs :
    /\ Succeeded(r) /\ req[r].kind = "return"
    /\ req[r].sale_item_id = 1 /\ req[r].sale_id = 1 /\ req[r].quantity = 1
    /\ ~inTxn
    /\ db.items[1].returned_quantity = 1

\* ------------------------------------------------------------------- C8
\* C8: a successful createReturn against SaleItem i restocks the Product of
\* i and takes the amounts off the Sale of i, whatever sale_id and product_id
\* the request carries; every other Product, Sale and SaleItem is unchanged.
C8_Targets ==
  \A r \in Reqs :
    (Succeeded(r) /\ req[r].kind = "return" /\ req[r].quantity > 0) =>
      LET pre == req[r].pre
          c == Committed
          id == req[r].sale_item_id
          q == req[r].quantity
          i == pre.items[id]
      IN /\ \A p \in Products :
              c.products[p] = pre.products[p] + (IF p = i.product_id THEN q ELSE 0)
         /\ \A n \in DOMAIN pre.sales :
              c.sales[n].net_total =
                pre.sales[n].net_total - (IF n = i.sale_id THEN req[r].returnAmount ELSE 0)
         /\ \A n \in DOMAIN pre.items :
              n # id => c.items[n] = pre.items[n]

\* ------------------------------------------------------------------- C9
\* C9: as long as only createSale requests have been served, every Product
\* has quantity >= 0.
C9_StockNonNegative ==
  (/\ Committed.returns = << >>
   /\ \A r \in Reqs : req[r].kind # "return")
    => \A p \in Products : Committed.products[p] >= 0

\* ------------------------------------------------------------------ C10
\* C10: a successful sale takes from each product exactly the quantities of
\* its items; a successful return that names the product of its SaleItem
\* gives back exactly its quantity; once the units of sale 1 have all been
\* returned that way the stock of product 1 is what it was before sale 1.
StockSold(items, p) ==
  SumField(SelectSeq(items, LAMBDA it : it.product_id = p), "quantity")

C10_RoundTrip ==
  /\ \A r \in Reqs :
       (Succeeded(r) /\ req[r].kind = "sale") =>
         \A p \in Products :
           Committed.products[p] = req[r].pre.products[p] - StockSold(req[r].items, p)
  /\ \A r \in Reqs :
       (/\ Succeeded(r) /\ req[r].kind = "return"
        /\ req[r].product_id = req[r].pre.items[req[r].sale_item_id].product_id) =>
         Committed.products[req[r].product_id]
           = req[r].pre.products[req[r].product_id] + req[r].quantity
  /\ (/\ served = Len(Committed.returns)
      /\ \A r \in Reqs : req[r].kind = "none"
      /\ \A n \in DOMAIN Committed.returns :
           Committed.returns[n].sale_item_id = 1 /\ Committed.returns[n].product_id = 1
      /\ Committed.items[1].returned_quantity = Committed.items[1].quantity)
       => Committed.products[1] = InitStock + MaxQty

\* Every unit of sale 1 has been returned against product 1 and the stock of
\* product 1 is back to what it was before sale 1.
C10_Witness ==
  /\ \A r \in Reqs : req[r].kind = "none"
  /\ ~inTxn
  /\ Len(db.returns) >= 1 /\ served = Len(db.returns)
  /\ \A n \in DOMAIN db.returns :
       db.returns[n].sale_item_id = 1 /\ db.returns[n].product_id = 1
         /\ db.returns[n].quantity > 0
  /\ db.items[1].returned_quantity = db.items[1].quantity
  /\ db.products[1] = InitStock + MaxQty

\* ------------------------------------------------------------------ C11
\* C11: the committed Sales never share an invoice number, and a createSale
\* whose invoice number is already taken is answered with an error and
\* leaves every table as it was before the request.
C11_Invoice ==
  /\ \A m, n \in DOMAIN Committed.sales :
       m # n => Committed.sales[m].invoice_number # Committed.sales[n].invoice_number
  /\ \A r \in Reqs :
       (SaleOver(r) /\ req[r].failedAt = "unique") =>
         (req[r].status = 400 /\ Tables(Committed) = Tables(req[r].pre))

\* A sale with items that got the invoice number of sale 1 has been refused.
C11_Witness ==
  \E r \in Reqs :
    /\ SaleOver(r) /\ req[r].failedAt = "unique"
    /\ Len(req[r].items) >= 1
    /\ req[r].invoiceNumber = db.sales[1].invoice_number
    /\ ~inTxn /\ Len(db.sales) = 1

\* ------------------------------------------------------------------ C12
\* C12: a createSale request that was answered with success leaves the
\* server with its Sale row, all its SaleItem rows and all its decrements
\* committed, and a createSale request that is cut short while statements of
\* it are outstanding has been answered with an error.
C12_Step ==
  \A r \in Reqs :
    (req[r].kind = "sale" /\ req'[r].kind = "none") =>
      /\ req[r].status = 200 =>
           /\ RowsBy(Committed.sales, r) = 1
           /\ RowsBy(Committed.items, r) = Len(req[r].items)
           /\ Cardinality(Committed.dec[r]) = Len(req[r].items)
      /\ InQueue(r) => req[r].status = 400

C12_NoSwallow == [][C12_Step]_vars

\* ------------------------------------------------------------------ C13
\* C13: a createSale request with an empty items sequence is answered with
\* an error and no Sale row of it exists, committed or pending in an open
\* transaction.
C13_EmptyCart ==
  \A r \in Reqs :
    (SaleOver(r) /\ req[r].items = << >>) =>
      /\ req[r].status = 400
      /\ RowsBy(db.sales, r) = 0
      /\ ~inTxn

\* ------------------------------------------------------------------ C14
\* C14: a createReturn request whose sale_item_id matches no SaleItem leaves
\* the server answered with an error, with no transaction open and every
\* table as it was before the request.
C14_Step ==
  \A r \in Reqs :
    (/\ req[r].kind = "return"
     /\ req[r].sale_item_id \notin DOMAIN req[r].pre.items
     /\ req'[r].kind = "none") =>
      /\ req[r].status = 400
      /\ ~inTxn'
      /\ Tables(Committed') = Tables(req[r].pre)

C14_MissingItem == [][C14_Step]_vars

\* ------------------------------------------------------------------ C15
\* C15: from one state to the next the committed returned_quantity of a
\* SaleItem never decreases, and every committed Return row has
\* quantity > 0.
C15_Step ==
  /\ \A n \in DOMAIN Committed.items :
       n \in DOMAIN Committed'.items =>
         Committed'.items[n].returned_quantity >= Committed.items[n].returned_quantity
  /\ \A n \in DOMAIN Committed'.returns : Committed'.returns[n].quantity > 0

C15_Monotone == [][C15_Step]_vars

\* ------------------------------------------------------------------ C16
\* C16: a statement that changes or deletes a Product leaves every Sale,
\* SaleItem and Return row unchanged, and every committed Return row carries
\* the amounts computed from the stored unit_price, profit and quantity of its
\* SaleItem, whatever the Product's selling price is by then.
C16_Step ==
  /\ (/\ db'.price # db.price \/ db'.category # db.category
      /\ ~(inTxn /\ ~inTxn'))
       => /\ Tables(db').sales = Tables(db).sales
          /\ Tables(db').items = Tables(db).items
          /\ Tables(db').returns = Tables(db).returns
  /\ \A n \in DOMAIN Committed'.returns :
       LET row == Committed'.returns[n]
           item == Committed'.items[row.sale_item_id]
       IN /\ row.return_amount = item.unit_price * row.quantity
          /\ row.return_profit = (item.profit \div item.quantity) * row.quantity

C16_Snapshots == [][C16_Step]_vars

\* A return of one unit of item 1 has been committed after product 1 got
\* another selling price and quantity 0: the unit is back in stock and the
\* amount is the sale's unit price.
C16_Witness ==
  \E r \in Reqs :
    /\ Succeeded(r) /\ req[r].kind = "return" /\ req[r].quantity = 1
    /\ ~inTxn
    /\ db.price[1] # db.items[1].unit_price
    /\ db.products[1] = 1
    /\ ReturnRowOf(db, r).return_amount = db.items[1].unit_price

\* ------------------------------------------------------------------ C17
\* C17: in the step that removes a category from the categories table no
\* Product references that category.
C17_Step ==
  \A c \in Categories :
    (c \in db.categories /\ c \notin db'.categories) => References(db', c) = 0

C17_Guard == [][C17_Step]_vars

\* ------------------------------------------------------------------ C18
\* C18: every committed Sale has net_total = subtotal - discount_value -
\* (sum of return_amount of the Return rows with its sale_id) and
\* total_profit = (sum of profit of its SaleItems) - discount_value - (sum of
\* return_profit of those Return rows).
ReturnsOfSale(d, id) == SelectSeq(d.returns, LAMBDA row : row.sale_id = id)
ItemsOfSale(d, id) == SelectSeq(d.items, LAMBDA row : row.sale_id = id)

C18_Ledger ==
  \A id \in DOMAIN Committed.sales :
    LET sale == Committed.sales[id]
        dv == IF sale.discount_type = "flat" THEN sale.discount_amount
              ELSE (sale.subtotal * sale.discount_amount) \div 100
        back == ReturnsOfSale(Committed, id)
    IN /\ sale.net_total = sale.subtotal - dv - SumField(back, "return_amount")
       /\ sale.total_profit = SumField(ItemsOfSale(Committed, id), "profit") - dv
                                - SumField(back, "return_profit")

\* ------------------------------------------------------------------ C19
\* C19: for every committed SaleItem, the quantities of the committed Return
\* rows with its sale_item_id add up to its returned_quantity, and their
\* return_amounts add up to unit_price * returned_quantity.
ReturnsOfItem(d, id) == SelectSeq(d.returns, LAMBDA row : row.sale_item_id = id)

C19_Records ==
  \A id \in DOMAIN Committed.items :
    LET item == Committed.items[id]
        back == ReturnsOfItem(Committed, id)
    IN /\ SumField(back, "quantity") = item.returned_quantity
       /\ SumField(back, "return_amount") = item.unit_price * item.returned_quantity

\* Two returns committed against the same SaleItem.
C19_Witness ==
  /\ ~inTxn
  /\ \E id \in DOMAIN db.items :
       /\ Len(ReturnsOfItem(db, id)) >= 2
       /\ db.items[id].returned_quantity = 2
       /\ \A n \in DOMAIN db.returns : db.returns[n].quantity > 0

\* ------------------------------------------------------------------ C20
\* C20: every createSale and every createReturn request sends exactly one
\* response.  A second response throws (CanRespond), so a request never
\* carries more than one; the step below states that it never leaves the
\* server (all its statements and callbacks done, or the process ended) with
\* none.
C20_Step ==
  \A r \in Reqs :
    (req[r].kind \in {"sale", "return"} /\ req'[r].kind = "none")
      => req[r].status # 0

C20_OneResponse == [][C20_Step]_vars

\* ------------------------------------------------------------------ C21
\* C21: the BEGIN of a createSale or createReturn request is followed by
\* exactly one COMMIT or one ROLLBACK of that request: at most one of them
\* is pending at a time, the connection has no open transaction when the
\* request has finished, and no statement of the request runs after its own
\* ROLLBACK.
Own(q, r) == SelectSeq(q, LAMBDA s : s.r = r)
Closers(q, r) == SelectSeq(q, LAMBDA s : s.r = r /\ s.op \in {"commit", "rollback"})

\* The request has failed and the ROLLBACK it issued has run.
RolledBack(r) ==
  /\ req[r].kind \in {"sale", "return"}
  /\ req[r].failedAt # ""
  /\ Closers(queue, r) = << >>

IsPrefix(s, t) == Len(s) <= Len(t) /\ SubSeq(t, 1, Len(s)) = s

C21_Step ==
  \A r \in Reqs :
    /\ req[r].kind \in {"sale", "return"} => Len(Closers(queue, r)) <= 1
    /\ (req[r].kind \in {"sale", "return"} /\ Finished(r) /\ req'[r].kind = "none")
         => ~inTxn
    /\ RolledBack(r) => IsPrefix(Own(queue, r), Own(queue', r))

C21_Closed == [][C21_Step]_vars

\* ------------------------------------------------------------------ C22
\* discount_value of a Sale row, lines 317-321.
RowDiscount(sale) ==
  IF sale.discount_type = "flat" THEN sale.discount_amount
  ELSE (sale.subtotal * sale.discount_amount) \div 100

\* The case the claim is about: Sale id of database state d was created with
\* 0 <= discount_value <= subtotal from items with line_total = unit_price *
\* quantity that add up to its subtotal, and the returns recorded for it are
\* the accepted returns of its own items, each of a positive quantity.
WellFormedSale(d, id) ==
  LET sale == d.sales[id]
      its == ItemsOfSale(d, id)
  IN /\ 0 <= RowDiscount(sale) /\ RowDiscount(sale) <= sale.subtotal
     /\ its # << >>
     /\ \A k \in DOMAIN its : its[k].line_total = its[k].unit_price * its[k].quantity
     /\ SumField(its, "line_total") = sale.subtotal
     /\ \A n \in DOMAIN d.returns :
          LET row == d.returns[n]
          IN /\ row.sale_item_id \in DOMAIN d.items
             /\ (row.sale_id = id) = (d.items[row.sale_item_id].sale_id = id)
             /\ row.sale_id = id => row.quantity > 0

\* Every unit of every item of Sale id has been returned.
AllReturned(d, id) ==
  \A n \in DOMAIN d.items :
    d.items[n].sale_id = id => d.items[n].returned_quantity = d.items[n].quantity

\* C22 as stated: the net_total of such a Sale is never negative, also after
\* every unit of every item of a discounted Sale has been returned.
C22_NonNegative ==
  \A id \in DOMAIN Committed.sales :
    WellFormedSale(Committed, id) => Committed.sales[id].net_total >= 0

\* C22 as amended: the net_total of such a Sale never falls below
\* -discount_value, and it is exactly -discount_value once every unit of
\* every item has been returned (negative for a discounted Sale).
C22_Floor ==
  \A id \in DOMAIN Committed.sales :
    WellFormedSale(Committed, id) =>
      /\ Committed.sales[id].net_total >= 0 - RowDiscount(Committed.sales[id])
      /\ AllReturned(Committed, id) =>
           Committed.sales[id].net_total = 0 - RowDiscount(Committed.sales[id])

\* A discounted Sale whose every unit came back through accepted returns.
C22_Witness ==
  /\ ~inTxn
  /\ \E id \in DOMAIN db.sales :
       /\ WellFormedSale(db, id)
       /\ RowDiscount(db.sales[id]) > 0
       /\ AllReturned(db, id)
       /\ ReturnsOfSale(db, id) # << >>
       /\ db.sales[id].net_total < 0

====
